---- MODULE Spec2Model ----
(***************************************************************************)
(* Rail fence cipher (src/src/lib.rs): RailFence::new, RailFence::encode   *)
(* and RailFence::decode as a state machine.  One call runs at a time; the *)
(* loops of encode and decode advance one iteration per step.              *)
(*                                                                         *)
(* A String is a sequence of chars (Unicode scalar values, as integers);   *)
(* its byte offsets are derived with len_utf8, because decode counts       *)
(* chars (chars().count()) but slices by byte offset (&s[a..b]).           *)
(*                                                                         *)
(* Unsigned machine words (u32, usize) are carried in two's complement: a  *)
(* value that wrapped below zero in a release build, 2^w - k, is the       *)
(* integer -k.  Every other value of the model is far below 2^31.          *)
(***************************************************************************)
EXTENDS Integers, Sequences, FiniteSets, TLC

\* Largest rail count handed to RailFence::new.
MaxRails == 4

\* Longest text (in chars) handed to encode or decode.
MaxLen == 7

\* 'A' (one byte in UTF-8) and U+00E9 (two bytes in UTF-8).
Chars == {65, 233}

\* Overflow checks are on in a debug build and off (wrapping) in a release build.
Builds == {"debug", "release"}

\* "RUSTISGREAT" and "RGUSRSIETTA", the texts of the two doctests.
RustIsGreat == <<82, 85, 83, 84, 73, 83, 71, 82, 69, 65, 84>>

RgusrsIetta == <<82, 71, 85, 83, 82, 83, 73, 69, 84, 84, 65>>

\* The arguments handed to encode and decode.
Texts == UNION {[1..n -> Chars] : n \in 0..MaxLen} \cup {RustIsGreat, RgusrsIetta}

VARIABLES
    self_rails,   \* RailFence.rails
    build,        \* how the crate was compiled
    pc,           \* "idle", "encode_loop", "decode_loop", "returned", "panicked"
    call,         \* "none", "encode", "decode": the method running or last run
    paired,       \* TRUE when decode was handed the result of encode(text)
    text,         \* encode's argument
    result,       \* encode's return value
    cipher_text,  \* decode's argument
    clear_text,   \* decode's output
    rails,        \* the local vector of rows, indexed 0..self_rails-1
    start,        \* decode's vector of start offsets
    f,            \* the rail to check
    i,            \* the letter index
    panic_msg     \* "none" or the panic that ended the call

vars == <<self_rails, build, pc, call, paired, text, result, cipher_text,
          clear_text, rails, start, f, i, panic_msg>>

---------------------------------------------------------------------------
\* Machine arithmetic

NoPanic == "none"

Ok(v) == [panic |-> NoPanic, val |-> v]

Fault(msg) == [panic |-> msg, val |-> 0]

\* a - b on unsigned words a, b >= 0.
Sub(a, b, bld) ==
    IF a >= b THEN Ok(a - b)
    ELSE IF bld = "debug" THEN Fault("attempt to subtract with overflow")
    ELSE Ok(a - b)

\* 2 * x on an unsigned word: overflows exactly when x has its top bit set.
Twice(x, bld) ==
    IF x >= 0 THEN Ok(2 * x)
    ELSE IF bld = "debug" THEN Fault("attempt to multiply with overflow")
    ELSE Ok(2 * x)

\* a / b and a % b, unsigned, for a dividend a >= 0; a divisor with its top
\* bit set is larger than every such dividend.
UDiv(a, b) == IF b < 0 THEN 0 ELSE a \div b

URem(a, b) == IF b < 0 THEN a ELSE a % b

\* Indexing a vector of n elements with an unsigned word.
InBounds(idx, n) == idx >= 0 /\ idx < n

---------------------------------------------------------------------------
\* Strings

len_utf8(c) ==
    IF c < 128 THEN 1 ELSE IF c < 2048 THEN 2 ELSE IF c < 65536 THEN 3 ELSE 4

RECURSIVE ByteLen(_)
ByteLen(s) == IF s = <<>> THEN 0 ELSE len_utf8(Head(s)) + ByteLen(Tail(s))

\* Byte offset of the end of the k-th char, k = 0..Len(s).
ByteOffset(s, k) == ByteLen(SubSeq(s, 1, k))

IsCharBoundary(s, n) == \E k \in 0..Len(s) : ByteOffset(s, k) = n

\* &s[a..b]: panics unless a <= b and both are char boundaries of s.
StrSlice(s, a, b) ==
    IF a <= b /\ IsCharBoundary(s, a) /\ IsCharBoundary(s, b)
    THEN LET ka == CHOOSE k \in 0..Len(s) : ByteOffset(s, k) = a
             kb == CHOOSE k \in 0..Len(s) : ByteOffset(s, k) = b
         IN  Ok(SubSeq(s, ka + 1, kb))
    ELSE [panic |-> "byte index is not a char boundary or is out of range",
          val |-> <<>>]

---------------------------------------------------------------------------
\* RailFence::encode

\* vec![String::from(""); n]
EmptyRows(n) == [k \in 0..(n - 1) |-> <<>>]

\* EncodeNextRail dividing by the rail count instead of rail count - 1.
EncodeNextRail_DivByRails(fv, iv, r, bld) ==
    LET d == Sub(r, 1, bld) IN
    IF d.panic # NoPanic THEN Fault(d.panic)
    ELSE IF r = 0 THEN Fault("attempt to divide by zero")
    ELSE IF UDiv(iv, r) % 2 = 0 THEN Ok(fv + 1)
    ELSE Sub(fv, 1, bld)

\* f = match i as u32 / (self.rails - 1) % 2 { 0 => f + 1, 1 => f - 1, _ => f }
EncodeNextRail(fv, iv, r, bld) ==
    LET d == Sub(r, 1, bld) IN
    IF d.panic # NoPanic THEN Fault(d.panic)
    ELSE IF d.val = 0 THEN Fault("attempt to divide by zero")
    ELSE IF UDiv(iv, d.val) % 2 = 0 THEN Ok(fv + 1)
    ELSE Sub(fv, 1, bld)

\* One iteration of the for loop over message.chars().enumerate().
EncodeIter(st, c, r, bld) ==
    IF ~InBounds(st.f, r)
    THEN [st EXCEPT !.panic = "index out of bounds"]
    ELSE LET nf == EncodeNextRail(st.f, st.i, r, bld) IN
         IF nf.panic # NoPanic
         THEN [st EXCEPT !.panic = nf.panic]
         ELSE [rails |-> [st.rails EXCEPT ![st.f] = Append(@, c)],
               f |-> nf.val, i |-> st.i + 1, panic |-> NoPanic]

\* for part in rails { result.push_str(part.as_str()) }
RECURSIVE JoinFrom(_, _, _)
JoinFrom(rows, k, n) ==
    IF k >= n THEN <<>> ELSE rows[k] \o JoinFrom(rows, k + 1, n)

JoinRows(rows, n) == JoinFrom(rows, 0, n)

---------------------------------------------------------------------------
\* RailFence::decode

\* decode without its early return for one rail.
DecodeIsIdentity_Missing(r) == FALSE

\* decode returning early for every rail count up to one.
DecodeIsIdentity_AtMostOne(r) == r <= 1

\* if self.rails == 1 { return String::from(cipher) }
DecodeIsIdentity(r) == r = 1

\* let period = 2 * (self.rails - 1);
Period(r, bld) ==
    LET d == Sub(r, 1, bld) IN
    IF d.panic # NoPanic THEN d ELSE Twice(d.val, bld)

\* start[1] taking the extra char whatever the remainder.
Start1_AlwaysExtra(section, remainder) == section + 1

\* start[1]
Start1(section, remainder) ==
    IF remainder > 0 THEN section + 1 ELSE section

\* StartStep with the second increment taken one remainder too early.
StartStep_OneEarly(prev, k, r, section, remainder) ==
    prev + 2 * section
         + (IF remainder > k - 1 THEN 1 ELSE 0)
         + (IF remainder + (k - 1) + 1 >= 2 * r - 1 THEN 1 ELSE 0)

\* The body of `for i in 2..(self.rails as usize)`: start[k] from start[k-1].
StartStep(prev, k, r, section, remainder) ==
    prev + 2 * section
         + (IF remainder > k - 1 THEN 1 ELSE 0)
         + (IF remainder + (k - 1) + 1 >= 2 * r THEN 1 ELSE 0)

RECURSIVE StartLoop(_, _, _, _, _)
StartLoop(st, k, r, section, remainder) ==
    IF k >= r THEN st
    ELSE StartLoop([st EXCEPT ![k] = StartStep(st[k - 1], k, r, section, remainder)],
                   k + 1, r, section, remainder)

\* Lines 95-121: the vector of start offsets for a cipher of len chars.
StartOffsets(r, len, bld) ==
    LET p == Period(r, bld) IN
    IF p.panic # NoPanic THEN Fault(p.panic)
    ELSE IF p.val = 0 THEN Fault("attempt to divide by zero")
    ELSE LET section   == UDiv(len, p.val)
             remainder == URem(len, p.val)
             zeros     == [k \in 0..(r - 1) |-> 0]
         IN  IF ~InBounds(0, r) THEN Fault("index out of bounds")
             ELSE IF ~(r > 1) THEN Ok(zeros)
             ELSE Ok(StartLoop([zeros EXCEPT ![1] = Start1(section, remainder)],
                               2, r, section, remainder))

\* The slice pushed onto row idx.
RowSlice(c, st, r, idx) ==
    IF r - 1 = idx THEN StrSlice(c, st[idx], ByteLen(c))
    ELSE StrSlice(c, st[idx], st[idx + 1])

\* for (i, it) in rails.iter_mut().enumerate() { it.push_str(...) }
SplitRows(c, st, r) ==
    IF \E idx \in 0..(r - 1) : RowSlice(c, st, r, idx).panic # NoPanic
    THEN [panic |-> "byte index is not a char boundary or is out of range",
          val |-> EmptyRows(r)]
    ELSE Ok([idx \in 0..(r - 1) |-> RowSlice(c, st, r, idx).val])

\* DecodeNextRail with the two arms of the match swapped.
DecodeNextRail_Swapped(fv, iv, r, bld) ==
    LET d == Sub(r, 1, bld) IN
    IF d.panic # NoPanic THEN Fault(d.panic)
    ELSE IF d.val = 0 THEN Fault("attempt to divide by zero")
    ELSE IF UDiv(iv, d.val) % 2 = 0 THEN Sub(fv, 1, bld)
    ELSE Ok(fv + 1)

\* f = match i / (self.rails - 1) % 2 { 0 => f + 1, 1 => f - 1, _ => f }
DecodeNextRail(fv, iv, r, bld) ==
    LET d == Sub(r, 1, bld) IN
    IF d.panic # NoPanic THEN Fault(d.panic)
    ELSE IF d.val = 0 THEN Fault("attempt to divide by zero")
    ELSE IF UDiv(iv, d.val) % 2 = 0 THEN Ok(fv + 1)
    ELSE Sub(fv, 1, bld)

\* while !rails[f as usize].is_empty(): the loop test.
\* "panic" (index out of bounds), "stop" (row empty) or "go".
DecodeTest(st, r) ==
    IF ~InBounds(st.f, r) THEN "panic"
    ELSE IF st.rails[st.f] = <<>> THEN "stop" ELSE "go"

\* One iteration of the while loop, taken when DecodeTest is "go".
DecodeIter(st, r, bld) ==
    LET nf == DecodeNextRail(st.f, st.i, r, bld) IN
    IF nf.panic # NoPanic
    THEN [st EXCEPT !.panic = nf.panic]
    ELSE [rails |-> [st.rails EXCEPT ![st.f] = Tail(@)],
          clear_text |-> Append(st.clear_text, Head(st.rails[st.f])),
          f |-> nf.val, i |-> st.i + 1, panic |-> NoPanic]

\* Lines 90-130: everything before the while loop.
\* to: "returned" (rails == 1), "panicked" or "decode_loop".
DecodeSetup(r, c, bld) ==
    IF DecodeIsIdentity(r)
    THEN [to |-> "returned", panic |-> NoPanic, start |-> <<>>,
          rails |-> <<>>, clear_text |-> c]
    ELSE LET so == StartOffsets(r, Len(c), bld) IN
         IF so.panic # NoPanic
         THEN [to |-> "panicked", panic |-> so.panic, start |-> <<>>,
               rails |-> EmptyRows(r), clear_text |-> <<>>]
         ELSE IF ~(r > 1)
         THEN [to |-> "returned", panic |-> NoPanic, start |-> so.val,
               rails |-> EmptyRows(r), clear_text |-> c]
         ELSE LET sp == SplitRows(c, so.val, r) IN
              IF sp.panic # NoPanic
              THEN [to |-> "panicked", panic |-> sp.panic, start |-> so.val,
                    rails |-> EmptyRows(r), clear_text |-> <<>>]
              ELSE [to |-> "decode_loop", panic |-> NoPanic, start |-> so.val,
                    rails |-> sp.val, clear_text |-> <<>>]

---------------------------------------------------------------------------
\* The state machine

\* RailFence::new(rails): the field is stored as given.
Init ==
    /\ self_rails \in 0..MaxRails
    /\ build \in Builds
    /\ pc = "idle"
    /\ call = "none"
    /\ paired = FALSE
    /\ text = <<>>
    /\ result = <<>>
    /\ cipher_text = <<>>
    /\ clear_text = <<>>
    /\ rails = <<>>
    /\ start = <<>>
    /\ f = 0
    /\ i = 0
    /\ panic_msg = NoPanic

\* A call of encode(t): lines 55-57.  Every call starts from fresh locals, so
\* a call on a RailFence that has been used before runs as the first one does.
EncodeCall ==
    /\ pc = "idle"
    /\ \E t \in Texts : text' = t
    /\ pc' = "encode_loop"
    /\ call' = "encode"
    /\ paired' = FALSE
    /\ result' = <<>>
    /\ cipher_text' = <<>>
    /\ clear_text' = <<>>
    /\ rails' = EmptyRows(self_rails)
    /\ start' = <<>>
    /\ f' = 0
    /\ i' = 0
    /\ UNCHANGED <<self_rails, build, panic_msg>>

\* One iteration of encode's loop: lines 58-65.
EncodeStep ==
    /\ pc = "encode_loop"
    /\ i < Len(text)
    /\ LET st == EncodeIter([rails |-> rails, f |-> f, i |-> i, panic |-> NoPanic],
                            text[i + 1], self_rails, build)
       IN  IF st.panic # NoPanic
           THEN /\ pc' = "panicked"
                /\ panic_msg' = st.panic
                /\ UNCHANGED <<rails, f, i>>
           ELSE /\ rails' = st.rails
                /\ f' = st.f
                /\ i' = st.i
                /\ UNCHANGED <<pc, panic_msg>>
    /\ UNCHANGED <<self_rails, build, call, paired, text, result, cipher_text,
                   clear_text, start>>

\* The rows are joined and returned: lines 66-70.
EncodeReturn ==
    /\ pc = "encode_loop"
    /\ i >= Len(text)
    /\ result' = JoinRows(rails, self_rails)
    /\ pc' = "returned"
    /\ UNCHANGED <<self_rails, build, call, paired, text, cipher_text,
                   clear_text, rails, start, f, i, panic_msg>>

\* A call of decode(c), up to the while loop: lines 90-135.
DecodeEnter(c, isPaired) ==
    LET su == DecodeSetup(self_rails, c, build) IN
    /\ call' = "decode"
    /\ paired' = isPaired
    /\ cipher_text' = c
    /\ result' = <<>>
    /\ pc' = su.to
    /\ panic_msg' = su.panic
    /\ start' = su.start
    /\ rails' = su.rails
    /\ clear_text' = su.clear_text
    /\ f' = 0
    /\ i' = 0
    /\ UNCHANGED <<self_rails, build>>

\* decode of an arbitrary cipher text.
DecodeCall ==
    /\ pc = "idle"
    /\ text' = <<>>
    /\ \E c \in Texts : DecodeEnter(c, FALSE)

\* decode of what encode(text) has just returned.
DecodeEncoded ==
    /\ pc = "returned"
    /\ call = "encode"
    /\ UNCHANGED text
    /\ DecodeEnter(result, TRUE)

\* One iteration of decode's loop: lines 136-145.
DecodeStep ==
    /\ pc = "decode_loop"
    /\ LET st0 == [rails |-> rails, clear_text |-> clear_text, f |-> f, i |-> i,
                   panic |-> NoPanic]
           tst == DecodeTest(st0, self_rails)
           st  == DecodeIter(st0, self_rails, build)
       IN  /\ tst # "stop"
           /\ IF tst = "panic" \/ st.panic # NoPanic
              THEN /\ pc' = "panicked"
                   /\ panic_msg' = IF tst = "panic" THEN "index out of bounds"
                                   ELSE st.panic
                   /\ UNCHANGED <<rails, clear_text, f, i>>
              ELSE /\ rails' = st.rails
                   /\ clear_text' = st.clear_text
                   /\ f' = st.f
                   /\ i' = st.i
                   /\ UNCHANGED <<pc, panic_msg>>
    /\ UNCHANGED <<self_rails, build, call, paired, text, result, cipher_text,
                   start>>

\* The loop test finds the current row empty: line 146.
DecodeReturn ==
    /\ pc = "decode_loop"
    /\ DecodeTest([rails |-> rails, clear_text |-> clear_text, f |-> f, i |-> i,
                   panic |-> NoPanic], self_rails) = "stop"
    /\ pc' = "returned"
    /\ UNCHANGED <<self_rails, build, call, paired, text, result, cipher_text,
                   clear_text, rails, start, f, i, panic_msg>>

Next ==
    \/ EncodeCall
    \/ EncodeStep
    \/ EncodeReturn
    \/ DecodeCall
    \/ DecodeEncoded
    \/ DecodeStep
    \/ DecodeReturn

Spec == Init /\ [][Next]_vars

---------------------------------------------------------------------------
\* The zig-zag sequence, as the specification describes it

\* z(j): 0, 1, ..., r-1, r-2, ..., 1, 0, 1, ... for r >= 2.
Zig(r, j) ==
    LET period == 2 * (r - 1)
        m      == j % period
    IN  IF m <= r - 1 THEN m ELSE period - m

\* The chars of t at positions j, j+1, ... that the zig-zag puts on rail k.
RECURSIVE RefRowFrom(_, _, _, _)
RefRowFrom(r, t, k, j) ==
    IF j >= Len(t) THEN <<>>
    ELSE (IF Zig(r, j) = k THEN <<t[j + 1]>> ELSE <<>>) \o RefRowFrom(r, t, k, j + 1)

RECURSIVE RefJoinFrom(_, _, _)
RefJoinFrom(r, t, k) ==
    IF k >= r THEN <<>> ELSE RefRowFrom(r, t, k, 0) \o RefJoinFrom(r, t, k + 1)

RefEncode(r, t) == RefJoinFrom(r, t, 0)

\* How many of the positions 0..len-1 the zig-zag puts on rail k.
ZigCount(r, len, k) == Cardinality({j \in 0..(len - 1) : Zig(r, j) = k})

InLoop == pc \in {"encode_loop", "decode_loop"}

---------------------------------------------------------------------------
\* C1: for every rail count >= 1 and every text, encode(text) returns, decode
\* of that result returns, and the value decode returns equals text.
C1_RoundTrip ==
    self_rails >= 1 =>
        /\ call = "encode" => pc # "panicked"
        /\ (call = "decode" /\ paired) =>
              /\ pc # "panicked"
              /\ pc = "returned" => clear_text = text

\* C2: with one rail, encode and decode both return their argument unchanged,
\* for every text.
C2_IdentityAtOneRail ==
    self_rails = 1 =>
        /\ pc # "panicked"
        /\ (pc = "returned" /\ call = "encode") => result = text
        /\ (pc = "returned" /\ call = "decode") => clear_text = cipher_text

\* C3: with two or more rails encode returns, for every text, the rows of the
\* zig-zag sequence joined in rail order, each row in input order; with four
\* rails "RUSTISGREAT" becomes "RGUSRSIETTA".
C3_EncodeMatchesZigZag ==
    /\ (self_rails >= 2 /\ call = "encode") =>
          /\ pc # "panicked"
          /\ pc = "returned" => result = RefEncode(self_rails, text)
    /\ (self_rails = 4 /\ call = "encode" /\ text = RustIsGreat
          /\ pc = "returned") => result = RgusrsIetta

C3_Witness ==
    /\ pc = "returned"
    /\ call = "encode"
    /\ self_rails = 3
    /\ Len(text) >= 5
    /\ result # text

\* C4: whenever encode or decode returns, with one or more rails, the value has
\* as many chars as the argument, and decode has drained every row.
C4_LengthPreserved ==
    (self_rails >= 1 /\ pc = "returned") =>
        /\ call = "encode" => Len(result) = Len(text)
        /\ call = "decode" =>
              /\ Len(clear_text) = Len(cipher_text)
              /\ \A k \in DOMAIN rails : rails[k] = <<>>

\* C5: with one or more rails, encode("") and decode("") never panic and
\* return "".
C5_EmptyInput ==
    self_rails >= 1 =>
        /\ (call = "encode" /\ text = <<>>) =>
              /\ pc # "panicked"
              /\ pc = "returned" => result = <<>>
        /\ (call = "decode" /\ cipher_text = <<>>) =>
              /\ pc # "panicked"
              /\ pc = "decode_loop" => rails[f] = <<>>
              /\ pc = "returned" => clear_text = <<>>

C5_Witness ==
    /\ pc = "returned"
    /\ call = "decode"
    /\ paired
    /\ text = <<>>
    /\ cipher_text = <<>>
    /\ clear_text = <<>>
    /\ self_rails = 1

\* C6: with two or more rails neither encode nor decode ever panics, whatever
\* chars the text holds, and every start offset of decode is a char boundary
\* of the cipher text.
C6_TotalOnUnicode ==
    self_rails >= 2 =>
        /\ pc # "panicked"
        /\ call = "decode" =>
              \A k \in DOMAIN start : IsCharBoundary(cipher_text, start[k])

\* C7: a RailFence of zero rails is constructed as given; its decode panics on
\* every text, and its encode of a non-empty text panics at the first char;
\* neither returns a value.
C7_ZeroRailsFault ==
    /\ [](self_rails = 0 =>
            /\ call = "decode" => pc = "panicked"
            /\ (call = "encode" /\ text # <<>>) =>
                  /\ pc \in {"encode_loop", "panicked"}
                  /\ i = 0)
    /\ [][(self_rails = 0 /\ pc = "encode_loop" /\ text # <<>>)
            => pc' = "panicked"]_vars

C7_Witness ==
    /\ self_rails = 0
    /\ build = "release"
    /\ call = "decode"
    /\ pc = "panicked"
    /\ panic_msg = "index out of bounds"

\* The start offsets as C8 words them: start[k] for a cipher of len chars,
\* the second increment taken when remainder + k >= bound.
RECURSIVE StatedStart(_, _, _, _)
StatedStart(r, len, k, bound) ==
    LET period    == 2 * (r - 1)
        section   == len \div period
        remainder == len % period
    IN  IF k = 0 THEN 0
        ELSE IF k = 1 THEN (IF remainder > 0 THEN section + 1 ELSE section)
        ELSE StatedStart(r, len, k - 1, bound) + 2 * section
               + (IF remainder > k - 1 THEN 1 ELSE 0)
               + (IF remainder + k >= bound THEN 1 ELSE 0)

\* C8 as stated: in decode with more than one rail, start[0] = 0, start[1] is
\* section + 1 if remainder > 0 else section, and start[k] for k >= 2 is
\* start[k-1] + 2*section, plus 1 if remainder > k-1, plus 1 again if
\* remainder + k >= 2*rail_count - 1.
C8_StartOffsetsAsStated ==
    (self_rails > 1 /\ call = "decode") =>
        /\ DOMAIN start = 0..(self_rails - 1)
        /\ \A k \in 0..(self_rails - 1) :
              start[k] = StatedStart(self_rails, Len(cipher_text), k,
                                     2 * self_rails - 1)

\* C8 amended: as above, but the second increment of start[k] is taken when
\* remainder + k >= 2*rail_count.
C8_StartOffsetsAmended ==
    (self_rails > 1 /\ call = "decode") =>
        /\ DOMAIN start = 0..(self_rails - 1)
        /\ \A k \in 0..(self_rails - 1) :
              start[k] = StatedStart(self_rails, Len(cipher_text), k,
                                     2 * self_rails)

C8_Witness ==
    /\ call = "decode"
    /\ self_rails = 3
    /\ Len(cipher_text) = 3
    /\ start = [k \in 0..2 |-> k]

\* C9: with two or more rails and a cipher of L chars, the start offsets rise
\* from start[0] = 0 and stay <= L, and the range of each rail k is as wide as
\* the number of positions 0..L-1 the zig-zag sequence puts on rail k; a
\* cipher of one-byte chars is split into rows of exactly those lengths.
C9_StartOffsetsMatchCounts ==
    (self_rails >= 2 /\ call = "decode") =>
        LET r  == self_rails
            L  == Len(cipher_text)
            hi == [k \in 0..(r - 1) |-> IF k = r - 1 THEN L ELSE start[k + 1]]
        IN  /\ DOMAIN start = 0..(r - 1)
            /\ start[0] = 0
            /\ \A k \in 0..(r - 1) :
                  /\ start[k] <= hi[k]
                  /\ hi[k] <= L
                  /\ hi[k] - start[k] = ZigCount(r, L, k)
            /\ (pc = "decode_loop" /\ i = 0 /\ ByteLen(cipher_text) = L) =>
                  \A k \in 0..(r - 1) : Len(rails[k]) = ZigCount(r, L, k)

C9_Witness ==
    /\ call = "decode"
    /\ pc = "decode_loop"
    /\ i = 0
    /\ self_rails = 4
    /\ Len(cipher_text) = 5
    /\ ByteLen(cipher_text) = 5
    /\ start[3] - start[2] = 2
    /\ Len(rails[2]) = 2

\* C10: with two or more rails, in the loop of encode and in the loop of
\* decode the rail index f is within 0..rail_count-1 and is the zig-zag rail
\* of the letter index i; an iteration moves f up by one only below the last
\* rail and down by one only above rail 0, and no call ends in an index or
\* subtraction panic.
C10_RailIndexInRange ==
    /\ []((self_rails >= 2 /\ InLoop) =>
            /\ f \in 0..(self_rails - 1)
            /\ f = Zig(self_rails, i))
    /\ []((self_rails >= 2 /\ pc = "panicked") =>
            panic_msg \notin {"index out of bounds",
                              "attempt to subtract with overflow"})
    /\ [][(self_rails >= 2 /\ InLoop /\ pc' = pc /\ i' = i + 1) =>
            \/ f < self_rails - 1 /\ f' = f + 1
            \/ f > 0 /\ f' = f - 1]_vars

C10_Witness ==
    /\ pc = "decode_loop"
    /\ self_rails = 3
    /\ i = 5
    /\ f = 1
    /\ rails[f] # <<>>

====
